---- MODULE Spec2Model ----
(***************************************************************************)
(* RPC facade dispatch of the API server: the post-login root (apiRoot),   *)
(* its per-connection object cache guarded by objectMutex, the anonymous   *)
(* root (anonRoot) and the session's resource table.                       *)
(*                                                                         *)
(* Spec      one connection: concurrent FindMethod/Call on the apiRoot.    *)
(* SpecKill  Kill invoked through apiHandler and apiRoot on the resource   *)
(*           table they share, with facades registering resources.         *)
(* SpecFind  FindMethod of both roots applied to enumerated requests.      *)
(***************************************************************************)
EXTENDS Integers, Sequences, FiniteSets, TLC

\* ------------------------------------------------------------------ bounds

\* Concurrent transport tasks dispatching calls on the connection.
NumCallers == 2
\* FindMethod requests issued on the connection in one behaviour.
MaxCalls == 3
\* Concurrent or sequential invocations of Kill on the session.
NumKillers == 2
\* Versions 0..MaxVersion are requested in SpecFind.
MaxVersion == 3

\* Connections the process hosts, each with its own apiHandler and apiRoot.
NumConns == 2
\* The most pools the pool manager lists, and the most entities in one Show.
MaxPools == 2
MaxEntities == 2

Callers == 1..NumCallers
Killers == 1..NumKillers
Conns == 1..NumConns

\* ------------------------------------------------------------------ errors

NoError == [kind |-> "nil", RootMethod |-> "", Version |-> 0, Method |-> "", Code |-> ""]

CallNotImplementedError(rootMethod, version, method) ==
    [kind |-> "CallNotImplemented", RootMethod |-> rootMethod, Version |-> version,
     Method |-> method, Code |-> ""]

RequestError(code) ==
    [kind |-> "RequestError", RootMethod |-> "", Version |-> 0, Method |-> "", Code |-> code]

CodeNotSupported == "not supported"

NotFoundError(name, version) ==
    [kind |-> "NotFound", RootMethod |-> name, Version |-> version, Method |-> "", Code |-> ""]

IsNotFound(err) == err.kind = "NotFound"

\* errors.Errorf("internal error, %s(%d) claimed to return %s but returned %T", ...)
InternalError(rootName, version, goType) ==
    [kind |-> "InternalError", RootMethod |-> rootName, Version |-> version,
     Method |-> "", Code |-> goType]

\* The error value a facade constructor returns when it fails.
ConstructorError(rootName, version, id) ==
    [kind |-> "ConstructorError", RootMethod |-> rootName, Version |-> version,
     Method |-> "", Code |-> id]

\* common.ErrPerm, the sentinel permission error.
ErrPerm == [NoError EXCEPT !.kind = "ErrPerm", !.Code = "unauthorized access"]

\* ------------------------------------------------------------------ values

\* The zero reflect.Value: reflect.Value{} and reflect.ValueOf(nil).
NoValue ==
    [type |-> "invalid", name |-> "", version |-> 0, objId |-> "", conn |-> 0, n |-> 0]

\* The n-th object the constructor of (name, version) built from the facade
\* context ctx, which names the root that made it and the object id.
Instance(type, name, version, ctx, n) ==
    [type |-> type, name |-> name, version |-> version, objId |-> ctx.id,
     conn |-> ctx.r, n |-> n]

IsValid(v) == v.type # "invalid"

\* ------------------------------------------------------------------ types

TypeMethodsTable ==
    [t \in {"*LoggerAPIv1", "LoggerV2", "*loggerV2Impl", "*Unrelated", "*storage.API"} |->
        CASE t = "*LoggerAPIv1" -> {"Log"}
          [] t = "*storage.API" -> {"Show", "List", "ListPools", "CreatePool"}
          [] t = "LoggerV2" -> {"Log", "Flush"}
          [] t = "*loggerV2Impl" -> {"Log", "Flush"}
          [] OTHER -> {"Close"}]

TypeMethods(t) == TypeMethodsTable[t]

Kind(t) == IF t = "LoggerV2" THEN "interface" ELSE "ptr"

\* reflect.Type.AssignableTo: identical types, or the target is an interface
\* the type implements.
AssignableTo(t, goType) ==
    \/ t = goType
    \/ Kind(goType) = "interface" /\ TypeMethods(goType) \subseteq TypeMethods(t)

\* ---------------------------------------------------------------- registry

\* common.Facades: (name, version) -> declared type and factory.
Registered == {<<"Logger", 1>>, <<"Logger", 2>>, <<"Storage", 1>>}

DeclaredType(name, version) ==
    IF name = "Storage" THEN "*storage.API"
    ELSE IF version = 1 THEN "*LoggerAPIv1" ELSE "LoggerV2"

\* common.Facades.List(): the registered facades in the registry's order,
\* each with its versions.
FacadesList ==
    <<[Name |-> "Logger", Versions |-> <<1, 2>>],
      [Name |-> "Storage", Versions |-> <<1>>]>>

GetType(name, version) ==
    IF <<name, version>> \in Registered
    THEN [type |-> DeclaredType(name, version), err |-> NoError]
    ELSE [type |-> "", err |-> NotFoundError(name, version)]

GetFactory(name, version) ==
    IF <<name, version>> \in Registered
    THEN [factory |-> <<name, version>>, err |-> NoError]
    ELSE [factory |-> <<>>, err |-> NotFoundError(name, version)]

ErrMethodNotFound == [NoError EXCEPT !.kind = "ErrMethodNotFound"]

\* rpcreflect.ObjTypeOf(goType).Method(methodName)
ObjTypeMethod(goType, methodName) ==
    IF methodName \in TypeMethods(goType)
    THEN [method |-> methodName, err |-> NoError]
    ELSE [method |-> "", err |-> ErrMethodNotFound]

\* ------------------------------------------------------------ method lookup

NoCaller ==
    [kind |-> "nil", rootName |-> "", version |-> 0, goType |-> "", objMethod |-> "",
     impl |-> ""]

\* lookupMethod passing the registry's not-found error through unmapped.
lookupMethod_RawNotFound(rootName, version, methodName) ==
    LET t == GetType(rootName, version)
        m == ObjTypeMethod(t.type, methodName)
    IN  IF t.err # NoError
        THEN [goType |-> "", objMethod |-> "", err |-> t.err]
        ELSE IF m.err # NoError
        THEN [goType |-> "", objMethod |-> "", err |-> m.err]
        ELSE [goType |-> t.type, objMethod |-> m.method, err |-> NoError]

lookupMethod(rootName, version, methodName) ==
    LET t == GetType(rootName, version)
        m == ObjTypeMethod(t.type, methodName)
    IN  IF t.err # NoError
        THEN IF IsNotFound(t.err)
             THEN [goType |-> "", objMethod |-> "",
                   err |-> CallNotImplementedError(rootName, version, "")]
             ELSE [goType |-> "", objMethod |-> "", err |-> t.err]
        ELSE IF m.err # NoError
        THEN IF m.err = ErrMethodNotFound
             THEN [goType |-> "", objMethod |-> "",
                   err |-> CallNotImplementedError(rootName, version, methodName)]
             ELSE [goType |-> "", objMethod |-> "", err |-> m.err]
        ELSE [goType |-> t.type, objMethod |-> m.method, err |-> NoError]

\* apiRoot.FindMethod: the srvCaller closes over rootName, version and goType.
apiRootFindMethod(rootName, version, methodName) ==
    LET l == lookupMethod(rootName, version, methodName)
    IN  IF l.err # NoError
        THEN [caller |-> NoCaller, err |-> l.err]
        ELSE [caller |-> [kind |-> "srvCaller", rootName |-> rootName,
                          version |-> version, goType |-> l.goType,
                          objMethod |-> l.objMethod, impl |-> ""],
              err |-> NoError]

\* The admin implementations handed to newAnonRoot, by version.
adminAPIs == [v \in {2, 3} |-> IF v = 2 THEN "adminV2" ELSE "adminV3"]

\* The methods the object an admin implementation serves as "Admin" has.
AdminMethods(api) == IF api = "adminV2" THEN {"Login"} ELSE {"Login", "RedirectInfo"}

\* rpcreflect.ValueOf(reflect.ValueOf(api)).FindMethod(rootName, version, methodName)
ValueFindMethod(api, rootName, version, methodName) ==
    IF version # 0
    THEN [caller |-> NoCaller, err |-> CallNotImplementedError(rootName, version, "")]
    ELSE IF methodName \notin AdminMethods(api)
    THEN [caller |-> NoCaller, err |-> CallNotImplementedError(rootName, 0, methodName)]
    ELSE [caller |-> [kind |-> "methodCaller", rootName |-> rootName, version |-> 0,
                      goType |-> "", objMethod |-> methodName, impl |-> api],
          err |-> NoError]

\* anonRoot.FindMethod without the rootName guard: other names reach the registry.
anonRootFindMethod_AnyRoot(rootName, version, methodName) ==
    IF rootName # "Admin"
    THEN apiRootFindMethod(rootName, version, methodName)
    ELSE IF version \in DOMAIN adminAPIs
    THEN ValueFindMethod(adminAPIs[version], rootName, 0, methodName)
    ELSE [caller |-> NoCaller, err |-> RequestError(CodeNotSupported)]

\* anonRoot.FindMethod answering an unsupported Admin version as a missing call.
anonRootFindMethod_NotImplemented(rootName, version, methodName) ==
    IF rootName # "Admin"
    THEN [caller |-> NoCaller, err |-> CallNotImplementedError(rootName, version, "")]
    ELSE IF version \in DOMAIN adminAPIs
    THEN ValueFindMethod(adminAPIs[version], rootName, 0, methodName)
    ELSE [caller |-> NoCaller, err |-> CallNotImplementedError(rootName, version, "")]

\* anonRoot.FindMethod always delegating to the newest admin implementation.
anonRootFindMethod_Newest(rootName, version, methodName) ==
    IF rootName # "Admin"
    THEN [caller |-> NoCaller, err |-> CallNotImplementedError(rootName, version, "")]
    ELSE IF version \in DOMAIN adminAPIs
    THEN ValueFindMethod(adminAPIs[3], rootName, 0, methodName)
    ELSE [caller |-> NoCaller, err |-> RequestError(CodeNotSupported)]

anonRootFindMethod(rootName, version, methodName) ==
    IF rootName # "Admin"
    THEN [caller |-> NoCaller, err |-> CallNotImplementedError(rootName, version, "")]
    ELSE IF version \in DOMAIN adminAPIs
    THEN ValueFindMethod(adminAPIs[version], rootName, 0, methodName)
    ELSE [caller |-> NoCaller, err |-> RequestError(CodeNotSupported)]

\* ------------------------------------------------------------ authorization

\* names.Tag values: a kind and an identifier.
TagKinds == {"machine", "unit", "user"}
TagIds == {"0", "1"}
Tags == [kind : TagKinds, id : TagIds]
NoTag == [kind |-> "", id |-> ""]

\* state.Entity values, known to the handler by their Tag(); NoEntity is the
\* nil entity of a handler nobody has logged in on.
Entities == [tag : Tags]
NoEntity == [tag |-> NoTag]

\* apiHandler.GetAuthTag: r.entity.Tag(), a method call on a nil interface
\* when no entity is set.
GetAuthTag(entity) ==
    IF entity = NoEntity
    THEN [tag |-> NoTag, panic |-> TRUE]
    ELSE [tag |-> entity.tag, panic |-> FALSE]

\* apiHandler.AuthMachineAgent: _, isMachine := r.GetAuthTag().(names.MachineTag)
AuthMachineAgent(entity) ==
    [val |-> ~GetAuthTag(entity).panic /\ GetAuthTag(entity).tag.kind = "machine",
     panic |-> GetAuthTag(entity).panic]

\* apiHandler.AuthUnitAgent
AuthUnitAgent(entity) ==
    [val |-> ~GetAuthTag(entity).panic /\ GetAuthTag(entity).tag.kind = "unit",
     panic |-> GetAuthTag(entity).panic]

\* apiHandler.AuthClient
AuthClient(entity) ==
    [val |-> ~GetAuthTag(entity).panic /\ GetAuthTag(entity).tag.kind = "user",
     panic |-> GetAuthTag(entity).panic]

\* AuthOwner comparing the kinds of the two tags only.
AuthOwner_SameKind(entity, tag) ==
    [val |-> entity # NoEntity /\ entity.tag.kind = tag.kind, panic |-> entity = NoEntity]

\* apiHandler.AuthOwner: r.entity.Tag() == tag
AuthOwner(entity, tag) ==
    [val |-> entity # NoEntity /\ entity.tag = tag, panic |-> entity = NoEntity]

\* DescribeFacades returning the facades in the opposite order.
DescribeFacades_Reversed ==
    [i \in 1..Len(FacadesList) |->
        [Name |-> FacadesList[Len(FacadesList) + 1 - i].Name,
         Versions |-> FacadesList[Len(FacadesList) + 1 - i].Versions]]

\* DescribeFacades: one result per entry of common.Facades.List(), in order.
DescribeFacades ==
    [i \in 1..Len(FacadesList) |->
        [Name |-> FacadesList[i].Name, Versions |-> FacadesList[i].Versions]]

\* ------------------------------------------------------------ facade context

\* apiRoot.facadeContext(id): the context names its root and the object id.
facadeContext(r, id) == [r |-> r, id |-> id]

\* A channel value: nil, open or closed.  A receive on a nil or an open
\* channel nobody sends on blocks; a receive on a closed channel returns.
NilChan == [state |-> "nil"]

Released(ch) == ch.state = "closed"

\* createAPI handing the facade to every caller.
createAPI_NoAuthCheck(authorizer, ctx, n) ==
    [obj |-> Instance("*storage.API", "Storage", 1, ctx, n), err |-> NoError]

\* storage.createAPI: common.ErrPerm unless the authorizer is a client.
createAPI(authorizer, ctx, n) ==
    IF ~AuthClient(authorizer).val
    THEN [obj |-> NoValue, err |-> ErrPerm]
    ELSE [obj |-> Instance("*storage.API", "Storage", 1, ctx, n), err |-> NoError]

\* -------------------------------------------------------------- storage API

\* *params.Error values: nil, or an error with the message it carries.
NoParamsError == [kind |-> "nil", about |-> ""]

\* common.ServerError(err): the error as a *params.Error, nil for nil.
ServerError(err) == err

\* errors.Annotatef(err, "getting %v", tag): the error with its context.
Annotatef(err, context) == [err EXCEPT !.about = context]

\* common.ErrPerm as it travels in a result.
ErrPermResult == [kind |-> "ErrPerm", about |-> ""]

\* The tags a Show request may carry, and those of them that name a storage.
EntityTags == {"storage-data-0", "storage-data-1", "machine-0"}
StorageTags == {"storage-data-0", "storage-data-1"}

\* names.ParseStorageTag: the storage tag, or an error for any other string.
ParseStorageTag(tag) ==
    IF tag \in StorageTags
    THEN [tag |-> tag, err |-> NoParamsError]
    ELSE [tag |-> "", err |-> [kind |-> "InvalidTag", about |-> tag]]

\* What the backing store answers for one storage tag: StorageInstance,
\* StorageInstanceVolume and StorageAttachments.
StoreAnswers ==
    [instance : {"found", "notfound", "error"},
     volume : {"ok", "error"},
     attachments : {"none", "one", "error"}]

\* params.StorageDetails values.
NoDetails == [StorageTag |-> "", Status |-> "", Persistent |-> FALSE, UnitTag |-> ""]

\* createParamsStorageInstance
createParamsStorageInstance(tag, persistent) ==
    [StorageTag |-> tag, Status |-> "pending", Persistent |-> persistent, UnitTag |-> ""]

\* API.isPersistent: common.ErrPerm when the volume cannot be read.
isPersistent(store, tag) ==
    IF store[tag].volume = "error"
    THEN [persistent |-> FALSE, err |-> ErrPermResult]
    ELSE [persistent |-> TRUE, err |-> NoParamsError]

\* API.getStorageInstance: found, the instance, and a server error.
getStorageInstance(store, tag) ==
    IF store[tag].instance = "notfound"
    THEN [found |-> FALSE, instance |-> NoDetails, err |-> NoParamsError]
    ELSE IF store[tag].instance = "error"
    THEN [found |-> FALSE, instance |-> NoDetails,
          err |-> ServerError(Annotatef(ErrPermResult, tag))]
    ELSE IF isPersistent(store, tag).err # NoParamsError
    THEN [found |-> FALSE, instance |-> NoDetails,
          err |-> ServerError(Annotatef(isPersistent(store, tag).err, tag))]
    ELSE [found |-> TRUE,
          instance |-> createParamsStorageInstance(tag, isPersistent(store, tag).persistent),
          err |-> NoParamsError]

\* API.getStorageAttachments
getStorageAttachments(store, tag, instance) ==
    IF store[tag].attachments = "error"
    THEN [attachments |-> <<>>, err |-> ServerError(Annotatef(ErrPermResult, tag))]
    ELSE IF store[tag].attachments = "one"
    THEN [attachments |-> <<[instance EXCEPT !.UnitTag = "unit-0"]>>, err |-> NoParamsError]
    ELSE [attachments |-> <<>>, err |-> NoParamsError]

\* API.createStorageDetailsResult: the attachments if there are any, else the
\* instance; the instance with the error if the attachments cannot be read.
createStorageDetailsResult(store, tag, instance) ==
    LET a == getStorageAttachments(store, tag, instance)
    IN  IF a.err # NoParamsError
        THEN <<[Result |-> instance, Error |-> a.err]>>
        ELSE IF Len(a.attachments) > 0
        THEN [i \in 1..Len(a.attachments) |->
                 [Result |-> a.attachments[i], Error |-> NoParamsError]]
        ELSE <<[Result |-> instance, Error |-> NoParamsError]>>

\* One turn of the loop of API.Show.  After getStorageInstance the code tests
\* err, the error of ParseStorageTag, which is nil on this path, and not the
\* serverErr it has just received.
ShowEntity(store, entityTag, all) ==
    LET parsed == ParseStorageTag(entityTag)
        err == parsed.err
    IN  IF err # NoParamsError
        THEN Append(all, [Result |-> NoDetails, Error |-> ServerError(err)])
        ELSE LET got == getStorageInstance(store, parsed.tag)
             IN  IF err # NoParamsError
                 THEN Append(all, [Result |-> NoDetails, Error |-> got.err])
                 ELSE IF got.found
                 THEN all \o createStorageDetailsResult(store, parsed.tag, got.instance)
                 ELSE all

RECURSIVE ShowLoop(_, _, _, _)
ShowLoop(store, entities, i, all) ==
    IF i > Len(entities)
    THEN all
    ELSE ShowLoop(store, entities, i + 1, ShowEntity(store, entities[i], all))

\* API.Show: the results of every entity, and a nil error.
Show(store, entities) ==
    [Results |-> ShowLoop(store, entities, 1, <<>>), err |-> NoError]

\* The pools the pool manager may hold, by name and provider type.
PoolNames == {"a", "b", "c"}
ProviderTypes == {"loop", "ebs"}
PoolConfigs == [Name : PoolNames, Provider : ProviderTypes]

\* What a filter may name: pool names, one of them not a valid pool name, and
\* provider types, one of them not supported by the environment.
FilterNames == PoolNames \cup {"!"}
FilterProviders == ProviderTypes \cup {"bogus"}

\* storage.IsValidPoolName and registry.IsProviderSupported.
IsValidPoolName(n) == n # "!"
IsProviderSupported(p) == p \in ProviderTypes

NotValid(what) == [NoError EXCEPT !.kind = "NotValid", !.Code = what]
NotSupported(what) == [NoError EXCEPT !.kind = "NotSupported", !.Code = what]
PoolManagerError == [NoError EXCEPT !.kind = "PoolManagerError"]

\* API.isValidPoolListFilter: the providers are looked at before the names.
isValidPoolListFilter(filter) ==
    IF filter.Providers # {} /\ \E q \in filter.Providers : ~IsProviderSupported(q)
    THEN [ok |-> FALSE,
          err |-> NotSupported(CHOOSE q \in filter.Providers : ~IsProviderSupported(q))]
    ELSE IF filter.Names # {} /\ \E n \in filter.Names : ~IsValidPoolName(n)
    THEN [ok |-> FALSE, err |-> NotValid(CHOOSE n \in filter.Names : ~IsValidPoolName(n))]
    ELSE [ok |-> TRUE, err |-> NoError]

\* poolMatchesFilters: every pool with no filter, both filters with both
\* given, the one filter given otherwise.
poolMatchesFilters(apool, providerFilter, nameFilter) ==
    IF providerFilter = {} /\ nameFilter = {}
    THEN TRUE
    ELSE IF providerFilter # {} /\ nameFilter # {}
    THEN apool.Name \in nameFilter /\ apool.Provider \in providerFilter
    ELSE apool.Name \in nameFilter \/ apool.Provider \in providerFilter

RECURSIVE ListPoolsLoop(_, _, _, _)
ListPoolsLoop(all, filter, i, results) ==
    IF i > Len(all)
    THEN results
    ELSE ListPoolsLoop(all, filter, i + 1,
             IF poolMatchesFilters(all[i], filter.Providers, filter.Names)
             THEN Append(results, [Name |-> all[i].Name, Provider |-> all[i].Provider])
             ELSE results)

\* API.ListPools: listErr is what poolManager.List() returned with all.
ListPools(all, listErr, filter) ==
    IF listErr # NoError
    THEN [Results |-> <<>>, err |-> listErr]
    ELSE IF ~isValidPoolListFilter(filter).ok
    THEN [Results |-> <<>>, err |-> isValidPoolListFilter(filter).err]
    ELSE [Results |-> ListPoolsLoop(all, filter, 1, <<>>), err |-> NoError]

\* -------------------------------------------------------------------- state

VARIABLES
    pc,            \* each caller's position in FindMethod / srvCaller.Call
    req,           \* the request a caller is serving: rootName, version, methodName, objId
    srv,           \* the MethodCaller FindMethod returned to the caller
    objVal,        \* objValue inside the creator closure, then objVal in Call
    facRes,        \* what factory(r.facadeContext(id)) returned: obj, err
    ret,           \* what FindMethod or Call last returned to the transport: val, err
    objectCache,   \* per connection, apiRoot.objectCache
    writer,        \* per connection, the caller holding objectMutex exclusively (0: nobody)
    readers,       \* per connection, the callers holding objectMutex shared
    factoryCalls,  \* per connection and object key, how many times its factory has run
    resolved,      \* every (object key, value, connection) a creator has returned with a nil error
    calls,         \* FindMethod requests issued so far
    panicked,      \* a goroutine of the process has panicked
    resources,     \* the session's common.Resources: names in registration order
    stopCount,     \* per resource, how many times Stop has been called on it
    resMu,         \* the killer inside Resources.StopAll (0: nobody)
    kpc,           \* each Kill invocation's position
    kleft,         \* the resources a StopAll in progress has still to stop
    find,          \* the last FindMethod evaluated on a root: request and result
    conn,          \* the connection each caller's transport task serves
    entity,        \* per connection, apiHandler.entity (NoEntity before login)
    auth,          \* the last authorization query on the session: query and result
    described,     \* what the last DescribeFacades call returned
    pools,         \* the pools poolManager.List() returns, in its order
    store,         \* the backing store's answer for each storage tag
    apiReq,        \* the last request made of the storage API
    apiRes         \* what that request returned

vars ==
    <<pc, req, srv, objVal, facRes, ret, objectCache, writer, readers, factoryCalls,
      resolved, calls, panicked, resources, stopCount, resMu, kpc, kleft, find,
      conn, entity, auth, described, pools, store, apiReq, apiRes>>

sessVars == <<conn, entity, auth, described>>

storVars == <<pools, store, apiReq, apiRes>>

callVars ==
    <<pc, req, srv, objVal, facRes, ret, objectCache, writer, readers, factoryCalls,
      resolved, calls, panicked>>

killVars == <<resources, stopCount, resMu, kpc, kleft>>

\* The requests the transport dispatches on the apiRoot in Spec.
CallNames == {"Logger"}
CallVersions == {1, 2, 3}
CallMethods == {"Log"}
ObjIds == {"", "a"}

\* The facade of src/apiserver/storage, requested in SpecStorage and SpecSession.
StorageNames == {"Storage"}
StorageVersions == {v \in CallVersions : <<"Storage", v>> \in Registered}
StorageMethods == {"List"}

\* An object key that leaves the version out.
objectKey_NoVersion(name, version, id) == <<name, 0, id>>

objectKey(name, version, id) == <<name, version, id>>

Keys ==
    {objectKey(n, v, i) : n \in CallNames \cup StorageNames, v \in CallVersions,
                          i \in ObjIds}

NoReq == [rootName |-> "", version |-> 0, methodName |-> "", objId |-> ""]
NoFacRes == [obj |-> NoValue, err |-> NoError]
NoRet == [val |-> NoValue, err |-> NoError, set |-> FALSE]
NoFind ==
    [root |-> "", rootName |-> "", version |-> 0, methodName |-> "",
     caller |-> NoCaller, err |-> NoError]
NoAuth ==
    [query |-> "", r |-> 0, arg |-> NoTag, val |-> FALSE, tag |-> NoTag, panic |-> FALSE]
NoDescribed == [done |-> FALSE, result |-> <<>>]

\* The connection whose session SpecKill, SpecAuth and SpecSession follow.
TheSession == CHOOSE r \in Conns : \A q \in Conns : r <= q

\* The entity the connections of Spec and SpecConns have logged in as.
ClientEntity == [tag |-> [kind |-> "user", id |-> "0"]]

\* newAPIHandler registers three named resources on the session's table.
InitialResources == <<"machineID", "dataDir", "logDir">>

\* The resources facades register while the session lives.
FacadeResources == {"watcher"}

ResourceNames ==
    {InitialResources[i] : i \in 1..Len(InitialResources)} \cup FacadeResources

SeqsUpTo(S, n) == UNION {[1..k -> S] : k \in 0..n}

\* What poolManager.List() may return: pools with distinct names.
PoolLists ==
    {ps \in SeqsUpTo(PoolConfigs, MaxPools) :
        \A i, j \in 1..Len(ps) : ps[i].Name = ps[j].Name => i = j}

Stores == [StorageTags -> StoreAnswers]
EmptyStore ==
    [t \in StorageTags |-> [instance |-> "notfound", volume |-> "ok", attachments |-> "none"]]

NoFilter == [Names |-> {}, Providers |-> {}]
NoApiReq == [method |-> "", filter |-> NoFilter, listErr |-> NoError, entities |-> <<>>]
NoApiRes == [done |-> FALSE, Results |-> <<>>, err |-> NoError]

\* The pool manager and the backing store behind the storage API.
InitStore(ps, st) ==
    /\ pools = ps
    /\ store = st
    /\ apiReq = NoApiReq
    /\ apiRes = NoApiRes

\* The state after newAPIHandler and newAPIRoot, with the callers spread over
\* the connections as cn says and the sessions' entities as en says.
InitRoots(cn, en) ==
    /\ pc = [c \in Callers |-> "idle"]
    /\ req = [c \in Callers |-> NoReq]
    /\ srv = [c \in Callers |-> NoCaller]
    /\ objVal = [c \in Callers |-> NoValue]
    /\ facRes = [c \in Callers |-> NoFacRes]
    /\ ret = [c \in Callers |-> NoRet]
    /\ objectCache = [r \in Conns |-> <<>>]
    /\ writer = [r \in Conns |-> 0]
    /\ readers = [r \in Conns |-> {}]
    /\ factoryCalls = [r \in Conns |-> [k \in Keys |-> 0]]
    /\ resolved = {}
    /\ calls = 0
    /\ panicked = FALSE
    /\ resources = InitialResources
    /\ stopCount = [r \in ResourceNames |-> 0]
    /\ resMu = 0
    /\ kpc = [k \in Killers |-> "idle"]
    /\ kleft = [k \in Killers |-> <<>>]
    /\ find = NoFind
    /\ conn = cn
    /\ entity = en
    /\ auth = NoAuth
    /\ described = NoDescribed

\* The roots, with nothing in the pool manager and the backing store.
InitWith(cn, en) == InitRoots(cn, en) /\ InitStore(<<>>, EmptyStore)

\* A client's session with any pools in the pool manager.
InitPools ==
    \E ps \in PoolLists :
        /\ InitRoots([c \in Callers |-> TheSession], [r \in Conns |-> ClientEntity])
        /\ InitStore(ps, EmptyStore)

\* A client's session with a backing store in any condition.
InitShow ==
    \E st \in Stores :
        /\ InitRoots([c \in Callers |-> TheSession], [r \in Conns |-> ClientEntity])
        /\ InitStore(<<>>, st)

\* One logged-in connection serving every caller.
Init == InitWith([c \in Callers |-> TheSession], [r \in Conns |-> ClientEntity])

\* The callers all on one connection, or spread over the connections; every
\* connection is logged in.
ConnAssignments ==
    {[c \in Callers |-> TheSession], [c \in Callers |-> ((c - 1) % NumConns) + 1]}

InitConns == \E cn \in ConnAssignments : InitWith(cn, [r \in Conns |-> ClientEntity])

\* One connection on which nobody has logged in yet.
InitSession == InitWith([c \in Callers |-> TheSession], [r \in Conns |-> NoEntity])

\* One connection logged in as any one entity.
InitStorage ==
    \E e \in Entities : InitWith([c \in Callers |-> TheSession], [r \in Conns |-> e])

KeyOf(c) == objectKey(srv[c].rootName, srv[c].version, req[c].objId)

CachePut(cache, key, value) ==
    [k \in DOMAIN cache \cup {key} |-> IF k = key THEN value ELSE cache[k]]

\* ------------------------------------------------------------ apiRoot calls

\* The facade of (name, version) is built by its registered factory from the
\* facade context; n tells the objects of successive invocations apart.  The
\* Logger factories stand for any registered factory: the first version's
\* always succeeds, the second's may return a value of its declared type, a
\* value of another type, nil, or an error.
FactoryResults(ctx, name, version, n) ==
    IF name = "Storage"
    THEN {createAPI(entity[ctx.r], ctx, n)}
    ELSE IF version = 1
    THEN {[obj |-> Instance("*LoggerAPIv1", name, version, ctx, n), err |-> NoError]}
    ELSE {[obj |-> Instance("*loggerV2Impl", name, version, ctx, n), err |-> NoError],
          [obj |-> Instance("*Unrelated", name, version, ctx, n), err |-> NoError],
          [obj |-> NoValue, err |-> NoError],
          [obj |-> NoValue, err |-> ConstructorError(name, version, ctx.id)]}

\* FindMethod running the factory as soon as the request is resolved.
FindMethodIn_Eager(c, names, versions, methods) ==
    /\ ~panicked
    /\ pc[c] = "idle"
    /\ calls < MaxCalls
    /\ entity[conn[c]] # NoEntity
    /\ \E rootName \in names, version \in versions,
          methodName \in methods, id \in ObjIds :
        LET r == apiRootFindMethod(rootName, version, methodName)
        IN  /\ req' = [req EXCEPT ![c] =
                    [rootName |-> rootName, version |-> version,
                     methodName |-> methodName, objId |-> id]]
            /\ srv' = [srv EXCEPT ![c] = r.caller]
            /\ IF r.err # NoError
               THEN /\ ret' = [ret EXCEPT ![c] =
                            [val |-> NoValue, err |-> r.err, set |-> TRUE]]
                    /\ pc' = pc
                    /\ factoryCalls' = factoryCalls
               ELSE /\ ret' = [ret EXCEPT ![c] = NoRet]
                    /\ pc' = [pc EXCEPT ![c] = "found"]
                    /\ factoryCalls' =
                          [factoryCalls EXCEPT
                              ![conn[c]][objectKey(rootName, version, id)] = @ + 1]
    /\ calls' = calls + 1
    /\ objVal' = [objVal EXCEPT ![c] = NoValue]
    /\ facRes' = [facRes EXCEPT ![c] = NoFacRes]
    /\ UNCHANGED <<objectCache, writer, readers, resolved, panicked>>
    /\ UNCHANGED <<killVars, find, sessVars, storVars>>

\* The transport resolves a request for one of the given facades on the
\* apiRoot of the caller's connection, which exists once the connection has
\* logged in.
FindMethodIn(c, names, versions, methods) ==
    /\ ~panicked
    /\ pc[c] = "idle"
    /\ calls < MaxCalls
    /\ entity[conn[c]] # NoEntity
    /\ \E rootName \in names, version \in versions,
          methodName \in methods, id \in ObjIds :
        LET r == apiRootFindMethod(rootName, version, methodName)
        IN  /\ req' = [req EXCEPT ![c] =
                    [rootName |-> rootName, version |-> version,
                     methodName |-> methodName, objId |-> id]]
            /\ srv' = [srv EXCEPT ![c] = r.caller]
            /\ IF r.err # NoError
               THEN /\ ret' = [ret EXCEPT ![c] =
                            [val |-> NoValue, err |-> r.err, set |-> TRUE]]
                    /\ pc' = pc
               ELSE /\ ret' = [ret EXCEPT ![c] = NoRet]
                    /\ pc' = [pc EXCEPT ![c] = "found"]
    /\ calls' = calls + 1
    /\ objVal' = [objVal EXCEPT ![c] = NoValue]
    /\ facRes' = [facRes EXCEPT ![c] = NoFacRes]
    /\ UNCHANGED <<objectCache, writer, readers, factoryCalls, resolved, panicked>>
    /\ UNCHANGED <<killVars, find, sessVars, storVars>>

\* A request for the Logger facade.
FindMethod(c) == FindMethodIn(c, CallNames, CallVersions, CallMethods)

\* A request for the Logger version whose factory cannot fail, which is all
\* the sharing between connections needs.
ConnVersions == {v \in CallVersions : \A w \in CallVersions : v <= w}

FindConnMethod(c) == FindMethodIn(c, CallNames, ConnVersions, CallMethods)

\* A request for the Storage facade.
FindStorageMethod(c) ==
    FindMethodIn(c, StorageNames, StorageVersions, StorageMethods)

\* srvCaller.Call enters the creator: r.objectMutex.RLock().  A reader waits
\* only for a writer that holds the lock; sync.RWMutex also makes it wait for
\* a writer that is queued, which removes interleavings and adds none.
Call(c) ==
    /\ ~panicked
    /\ pc[c] = "found"
    /\ writer[conn[c]] = 0
    /\ readers' = [readers EXCEPT ![conn[c]] = @ \cup {c}]
    /\ pc' = [pc EXCEPT ![c] = "rlocked"]
    /\ UNCHANGED <<req, srv, objVal, facRes, ret, objectCache, writer, factoryCalls,
                   resolved, calls, panicked>>
    /\ UNCHANGED <<killVars, find, sessVars, storVars>>

\* The creator looking in one cache that every connection shares.
CreatorRead_SharedCache(c) ==
    /\ ~panicked
    /\ pc[c] = "rlocked"
    /\ readers' = [readers EXCEPT ![conn[c]] = @ \ {c}]
    /\ IF KeyOf(c) \in DOMAIN objectCache[TheSession]
       THEN /\ objVal' = [objVal EXCEPT ![c] = objectCache[TheSession][KeyOf(c)]]
            /\ resolved' = resolved \cup {<<KeyOf(c), objectCache[TheSession][KeyOf(c)], conn[c]>>}
            /\ pc' = [pc EXCEPT ![c] = "invoke"]
       ELSE /\ pc' = [pc EXCEPT ![c] = "lock"]
            /\ UNCHANGED <<objVal, resolved>>
    /\ UNCHANGED <<req, srv, facRes, ret, objectCache, writer, factoryCalls, calls,
                   panicked>>
    /\ UNCHANGED <<killVars, find, sessVars, storVars>>

\* objValue, ok := r.objectCache[objKey]; RUnlock; return on a hit.
CreatorRead(c) ==
    /\ ~panicked
    /\ pc[c] = "rlocked"
    /\ readers' = [readers EXCEPT ![conn[c]] = @ \ {c}]
    /\ IF KeyOf(c) \in DOMAIN objectCache[conn[c]]
       THEN /\ objVal' = [objVal EXCEPT ![c] = objectCache[conn[c]][KeyOf(c)]]
            /\ resolved' = resolved \cup {<<KeyOf(c), objectCache[conn[c]][KeyOf(c)], conn[c]>>}
            /\ pc' = [pc EXCEPT ![c] = "invoke"]
       ELSE /\ pc' = [pc EXCEPT ![c] = "lock"]
            /\ UNCHANGED <<objVal, resolved>>
    /\ UNCHANGED <<req, srv, facRes, ret, objectCache, writer, factoryCalls, calls,
                   panicked>>
    /\ UNCHANGED <<killVars, find, sessVars, storVars>>

\* The creator taking the lock without excluding the other holders.
CreatorLock_Shared(c) ==
    /\ ~panicked
    /\ pc[c] = "lock"
    /\ writer' = [writer EXCEPT ![conn[c]] = c]
    /\ pc' = [pc EXCEPT ![c] = "locked"]
    /\ UNCHANGED <<req, srv, objVal, facRes, ret, objectCache, readers, factoryCalls,
                   resolved, calls, panicked>>
    /\ UNCHANGED <<killVars, find, sessVars, storVars>>

\* r.objectMutex.Lock(); defer r.objectMutex.Unlock()
CreatorLock(c) ==
    /\ ~panicked
    /\ pc[c] = "lock"
    /\ writer[conn[c]] = 0
    /\ readers[conn[c]] = {}
    /\ writer' = [writer EXCEPT ![conn[c]] = c]
    /\ pc' = [pc EXCEPT ![c] = "locked"]
    /\ UNCHANGED <<req, srv, objVal, facRes, ret, objectCache, readers, factoryCalls,
                   resolved, calls, panicked>>
    /\ UNCHANGED <<killVars, find, sessVars, storVars>>

\* The creator without the second look at the cache under the write lock.
CreatorRecheck_NoRecheck(c) ==
    /\ ~panicked
    /\ pc[c] = "locked"
    /\ IF GetFactory(srv[c].rootName, srv[c].version).err # NoError
       THEN /\ ret' = [ret EXCEPT ![c] =
                    [val |-> NoValue, set |-> TRUE,
                     err |-> GetFactory(srv[c].rootName, srv[c].version).err]]
            /\ writer' = [writer EXCEPT ![conn[c]] = 0]
            /\ pc' = [pc EXCEPT ![c] = "idle"]
            /\ UNCHANGED <<objVal, resolved>>
       ELSE /\ pc' = [pc EXCEPT ![c] = "factory"]
            /\ UNCHANGED <<objVal, resolved, writer, ret>>
    /\ UNCHANGED <<req, srv, facRes, objectCache, readers, factoryCalls, calls, panicked>>
    /\ UNCHANGED <<killVars, find, sessVars, storVars>>

\* The re-check under the write lock, then common.Facades.GetFactory.
CreatorRecheck(c) ==
    /\ ~panicked
    /\ pc[c] = "locked"
    /\ IF KeyOf(c) \in DOMAIN objectCache[conn[c]]
       THEN /\ objVal' = [objVal EXCEPT ![c] = objectCache[conn[c]][KeyOf(c)]]
            /\ resolved' = resolved \cup {<<KeyOf(c), objectCache[conn[c]][KeyOf(c)], conn[c]>>}
            /\ writer' = [writer EXCEPT ![conn[c]] = 0]
            /\ pc' = [pc EXCEPT ![c] = "invoke"]
            /\ ret' = ret
       ELSE IF GetFactory(srv[c].rootName, srv[c].version).err # NoError
       THEN /\ ret' = [ret EXCEPT ![c] =
                    [val |-> NoValue, set |-> TRUE,
                     err |-> GetFactory(srv[c].rootName, srv[c].version).err]]
            /\ writer' = [writer EXCEPT ![conn[c]] = 0]
            /\ pc' = [pc EXCEPT ![c] = "idle"]
            /\ UNCHANGED <<objVal, resolved>>
       ELSE /\ pc' = [pc EXCEPT ![c] = "factory"]
            /\ UNCHANGED <<objVal, resolved, writer, ret>>
    /\ UNCHANGED <<req, srv, facRes, objectCache, readers, factoryCalls, calls, panicked>>
    /\ UNCHANGED <<killVars, find, sessVars, storVars>>

\* The factory entered with the lock given up for the time it runs.
FactoryInvoke_Unlocked(c) ==
    /\ ~panicked
    /\ pc[c] = "factory"
    /\ factoryCalls' = [factoryCalls EXCEPT ![conn[c]][KeyOf(c)] = @ + 1]
    /\ writer' = [writer EXCEPT ![conn[c]] = 0]
    /\ pc' = [pc EXCEPT ![c] = "constructing"]
    /\ UNCHANGED <<req, srv, objVal, facRes, ret, objectCache, readers,
                   resolved, calls, panicked>>
    /\ UNCHANGED <<killVars, find, sessVars, storVars>>

\* factory(r.facadeContext(id)) is entered; the exclusive lock is held.
FactoryInvoke(c) ==
    /\ ~panicked
    /\ pc[c] = "factory"
    /\ factoryCalls' = [factoryCalls EXCEPT ![conn[c]][KeyOf(c)] = @ + 1]
    /\ pc' = [pc EXCEPT ![c] = "constructing"]
    /\ UNCHANGED <<req, srv, objVal, facRes, ret, objectCache, writer, readers,
                   resolved, calls, panicked>>
    /\ UNCHANGED <<killVars, find, sessVars, storVars>>

\* The factory returns obj, err.
FactoryReturn(c) ==
    /\ ~panicked
    /\ pc[c] = "constructing"
    /\ \E r \in FactoryResults(facadeContext(conn[c], req[c].objId), srv[c].rootName,
                               srv[c].version, factoryCalls[conn[c]][KeyOf(c)]) :
        facRes' = [facRes EXCEPT ![c] = r]
    /\ pc' = [pc EXCEPT ![c] = "built"]
    /\ UNCHANGED <<req, srv, objVal, ret, objectCache, writer, readers, factoryCalls,
                   resolved, calls, panicked>>
    /\ UNCHANGED <<killVars, find, sessVars, storVars>>

\* The creator inserting what the factory returned before looking at err.
CreatorFinish_CacheFailure(c) ==
    /\ ~panicked
    /\ pc[c] = "built"
    /\ writer' = [writer EXCEPT ![conn[c]] = 0]
    /\ IF facRes[c].err # NoError
       THEN /\ ret' = [ret EXCEPT ![c] =
                    [val |-> NoValue, err |-> facRes[c].err, set |-> TRUE]]
            /\ objectCache' = [objectCache EXCEPT ![conn[c]] = CachePut(@, KeyOf(c), facRes[c].obj)]
            /\ pc' = [pc EXCEPT ![c] = "idle"]
            /\ UNCHANGED <<objVal, resolved, panicked>>
       ELSE IF ~IsValid(facRes[c].obj)
       THEN /\ pc' = [pc EXCEPT ![c] = "panic"]
            /\ panicked' = TRUE
            /\ UNCHANGED <<objVal, objectCache, resolved, ret>>
       ELSE IF ~AssignableTo(facRes[c].obj.type, srv[c].goType)
       THEN /\ ret' = [ret EXCEPT ![c] =
                    [val |-> NoValue, set |-> TRUE,
                     err |-> InternalError(srv[c].rootName, srv[c].version,
                                           srv[c].goType)]]
            /\ pc' = [pc EXCEPT ![c] = "idle"]
            /\ UNCHANGED <<objVal, objectCache, resolved, panicked>>
       ELSE /\ objectCache' = [objectCache EXCEPT ![conn[c]] = CachePut(@, KeyOf(c), facRes[c].obj)]
            /\ objVal' = [objVal EXCEPT ![c] = facRes[c].obj]
            /\ resolved' = resolved \cup {<<KeyOf(c), facRes[c].obj, conn[c]>>}
            /\ pc' = [pc EXCEPT ![c] = "invoke"]
            /\ UNCHANGED <<ret, panicked>>
    /\ UNCHANGED <<req, srv, facRes, readers, factoryCalls, calls>>
    /\ UNCHANGED <<killVars, find, sessVars, storVars>>

\* The creator inserting whatever valid object the factory returned, without
\* comparing its type with the declared one.
CreatorFinish_NoTypeCheck(c) ==
    /\ ~panicked
    /\ pc[c] = "built"
    /\ writer' = [writer EXCEPT ![conn[c]] = 0]
    /\ IF facRes[c].err # NoError
       THEN /\ ret' = [ret EXCEPT ![c] =
                    [val |-> NoValue, err |-> facRes[c].err, set |-> TRUE]]
            /\ pc' = [pc EXCEPT ![c] = "idle"]
            /\ UNCHANGED <<objVal, objectCache, resolved, panicked>>
       ELSE IF ~IsValid(facRes[c].obj)
       THEN /\ pc' = [pc EXCEPT ![c] = "panic"]
            /\ panicked' = TRUE
            /\ UNCHANGED <<objVal, objectCache, resolved, ret>>
       ELSE /\ objectCache' =
                  [objectCache EXCEPT ![conn[c]] = CachePut(@, KeyOf(c), facRes[c].obj)]
            /\ objVal' = [objVal EXCEPT ![c] = facRes[c].obj]
            /\ resolved' = resolved \cup {<<KeyOf(c), facRes[c].obj, conn[c]>>}
            /\ pc' = [pc EXCEPT ![c] = "invoke"]
            /\ UNCHANGED <<ret, panicked>>
    /\ UNCHANGED <<req, srv, facRes, readers, factoryCalls, calls>>
    /\ UNCHANGED <<killVars, find, sessVars, storVars>>

\* The rest of the creator: the error check, reflect.ValueOf(obj), the
\* AssignableTo check, the insert, and the deferred Unlock.  Value.Type()
\* panics on the zero Value that reflect.ValueOf(nil) is; the deferred Unlock
\* still runs.  Re-wrapping the value as the declared interface type keeps
\* the object it refers to.
CreatorFinish(c) ==
    /\ ~panicked
    /\ pc[c] = "built"
    /\ writer' = [writer EXCEPT ![conn[c]] = 0]
    /\ IF facRes[c].err # NoError
       THEN /\ ret' = [ret EXCEPT ![c] =
                    [val |-> NoValue, err |-> facRes[c].err, set |-> TRUE]]
            /\ pc' = [pc EXCEPT ![c] = "idle"]
            /\ UNCHANGED <<objVal, objectCache, resolved, panicked>>
       ELSE IF ~IsValid(facRes[c].obj)
       THEN /\ pc' = [pc EXCEPT ![c] = "panic"]
            /\ panicked' = TRUE
            /\ UNCHANGED <<objVal, objectCache, resolved, ret>>
       ELSE IF ~AssignableTo(facRes[c].obj.type, srv[c].goType)
       THEN /\ ret' = [ret EXCEPT ![c] =
                    [val |-> NoValue, set |-> TRUE,
                     err |-> InternalError(srv[c].rootName, srv[c].version,
                                           srv[c].goType)]]
            /\ pc' = [pc EXCEPT ![c] = "idle"]
            /\ UNCHANGED <<objVal, objectCache, resolved, panicked>>
       ELSE /\ objectCache' = [objectCache EXCEPT ![conn[c]] = CachePut(@, KeyOf(c), facRes[c].obj)]
            /\ objVal' = [objVal EXCEPT ![c] = facRes[c].obj]
            /\ resolved' = resolved \cup {<<KeyOf(c), facRes[c].obj, conn[c]>>}
            /\ pc' = [pc EXCEPT ![c] = "invoke"]
            /\ UNCHANGED <<ret, panicked>>
    /\ UNCHANGED <<req, srv, facRes, readers, factoryCalls, calls>>
    /\ UNCHANGED <<killVars, find, sessVars, storVars>>

\* return s.objMethod.Call(objVal, arg): the method runs on objVal.
MethodCall(c) ==
    /\ ~panicked
    /\ pc[c] = "invoke"
    /\ ret' = [ret EXCEPT ![c] = [val |-> objVal[c], err |-> NoError, set |-> TRUE]]
    /\ pc' = [pc EXCEPT ![c] = "idle"]
    /\ UNCHANGED <<req, srv, objVal, facRes, objectCache, writer, readers, factoryCalls,
                   resolved, calls, panicked>>
    /\ UNCHANGED <<killVars, find, sessVars, storVars>>

\* --------------------------------------------------------------------- Kill

\* Resources.StopAll: under the table's own lock, stop every resource and
\* empty the table.
StopAllLock(k) ==
    /\ kpc[k] \in {"handlerKill", "rootKill"}
    /\ resMu = 0
    /\ resMu' = k
    /\ kleft' = [kleft EXCEPT ![k] = resources]
    /\ kpc' = [kpc EXCEPT ![k] = IF kpc[k] = "handlerKill" THEN "handlerStop" ELSE "rootStop"]
    /\ UNCHANGED <<resources, stopCount>>

StopAllStop(k) ==
    /\ kpc[k] \in {"handlerStop", "rootStop"}
    /\ kleft[k] # <<>>
    /\ stopCount' = [stopCount EXCEPT ![Head(kleft[k])] = @ + 1]
    /\ kleft' = [kleft EXCEPT ![k] = Tail(@)]
    /\ UNCHANGED <<resources, resMu, kpc>>

\* StopAll releasing its lock with the table left as it was.
StopAllUnlock_NoClear(k) ==
    /\ kpc[k] \in {"handlerStop", "rootStop"}
    /\ kleft[k] = <<>>
    /\ resMu' = 0
    /\ kpc' = [kpc EXCEPT ![k] = IF kpc[k] = "handlerStop" THEN "handlerDone" ELSE "rootDone"]
    /\ UNCHANGED <<resources, stopCount, kleft>>

StopAllUnlock(k) ==
    /\ kpc[k] \in {"handlerStop", "rootStop"}
    /\ kleft[k] = <<>>
    /\ resources' = <<>>
    /\ resMu' = 0
    /\ kpc' = [kpc EXCEPT ![k] = IF kpc[k] = "handlerStop" THEN "handlerDone" ELSE "rootDone"]
    /\ UNCHANGED <<stopCount, kleft>>

StopAll(k) == StopAllLock(k) \/ StopAllStop(k) \/ StopAllUnlock(k)

\* A Kill that also forgets who had logged in.
apiHandlerKill_ClearsEntity(k) ==
    /\ \/ /\ kpc[k] = "idle"
          /\ kpc' = [kpc EXCEPT ![k] = "handlerKill"]
          /\ entity' = [entity EXCEPT ![TheSession] = NoEntity]
          /\ UNCHANGED <<resources, stopCount, resMu, kleft>>
       \/ /\ kpc[k] \in {"handlerKill", "handlerStop"}
          /\ StopAll(k)
          /\ entity' = entity
    /\ UNCHANGED <<callVars, find, conn, auth, described, storVars>>

\* apiHandler.Kill: r.resources.StopAll()
apiHandlerKill(k) ==
    /\ \/ /\ kpc[k] = "idle"
          /\ kpc' = [kpc EXCEPT ![k] = "handlerKill"]
          /\ UNCHANGED <<resources, stopCount, resMu, kleft>>
       \/ /\ kpc[k] \in {"handlerKill", "handlerStop"}
          /\ StopAll(k)
    /\ UNCHANGED <<callVars, find, sessVars, storVars>>

\* A Kill that also empties the root's object cache.
apiRootKill_DropsCache(k) ==
    /\ \/ /\ kpc[k] = "idle"
          /\ kpc' = [kpc EXCEPT ![k] = "rootKill"]
          /\ objectCache' = [objectCache EXCEPT ![TheSession] = <<>>]
          /\ UNCHANGED <<resources, stopCount, resMu, kleft>>
       \/ /\ kpc[k] \in {"rootKill", "rootStop"}
          /\ StopAll(k)
          /\ objectCache' = objectCache
    /\ UNCHANGED <<pc, req, srv, objVal, facRes, ret, writer, readers, factoryCalls,
                   resolved, calls, panicked>>
    /\ UNCHANGED <<find, sessVars, storVars>>

\* apiRoot.Kill: r.resources.StopAll(), on the table it shares with the handler.
\* The root's objectCache is not touched.
apiRootKill(k) ==
    /\ \/ /\ kpc[k] = "idle"
          /\ kpc' = [kpc EXCEPT ![k] = "rootKill"]
          /\ UNCHANGED <<resources, stopCount, resMu, kleft>>
       \/ /\ kpc[k] \in {"rootKill", "rootStop"}
          /\ StopAll(k)
    /\ UNCHANGED <<callVars, find, sessVars, storVars>>

\* A facade registers a resource of its own on the table it got from
\* facadeContext.Resources(), under the table's lock.
FacadeRegister ==
    /\ resMu = 0
    /\ \E r \in FacadeResources :
        /\ stopCount[r] = 0
        /\ \A i \in 1..Len(resources) : resources[i] # r
        /\ resources' = Append(resources, r)
    /\ UNCHANGED <<stopCount, resMu, kpc, kleft, callVars, find, sessVars, storVars>>

\* --------------------------------------------------------------- FindMethod

FindNames == {"Admin", "Logger", "Nope"}
FindVersions == 0..MaxVersion
FindMethods == {"Log", "Flush", "Login", "RedirectInfo", "Nope"}

FindResult(root, rootName, version, methodName, r) ==
    [root |-> root, rootName |-> rootName, version |-> version,
     methodName |-> methodName, caller |-> r.caller, err |-> r.err]

\* A connection that has not logged in resolves a request on its anonRoot.
FindOnAnonRoot ==
    /\ \E rootName \in FindNames, version \in FindVersions, methodName \in FindMethods :
        find' = FindResult("anon", rootName, version, methodName,
                           anonRootFindMethod(rootName, version, methodName))
    /\ UNCHANGED <<callVars, killVars, sessVars, storVars>>

\* A logged-in connection resolves a request on its apiRoot.
FindOnApiRoot ==
    /\ \E rootName \in FindNames, version \in FindVersions, methodName \in FindMethods :
        find' = FindResult("api", rootName, version, methodName,
                           apiRootFindMethod(rootName, version, methodName))
    /\ UNCHANGED <<callVars, killVars, sessVars, storVars>>

\* ------------------------------------------------------------------ session

\* The sessions the authorization queries are made on.
Sessions == {TheSession}

\* A successful login sets the entity of a session that has none.
Login(r) ==
    /\ ~panicked
    /\ entity[r] = NoEntity
    /\ \E e \in Entities : entity' = [entity EXCEPT ![r] = e]
    /\ find' = NoFind
    /\ UNCHANGED <<callVars, killVars, conn, auth, described, storVars>>

\* The requests a connection makes before it logs in go to its anonRoot,
\* which login discards.
AnonFindMethod(r) ==
    /\ ~panicked
    /\ entity[r] = NoEntity
    /\ FindOnAnonRoot

\* An authorization query on session r records what it returned; a panic in
\* the handler ends the program.
AuthQuery(r, query, arg, res) ==
    /\ ~panicked
    /\ auth' = [query |-> query, r |-> r, arg |-> arg, val |-> res.val,
                tag |-> res.tag, panic |-> res.panic]
    /\ panicked' = res.panic
    /\ UNCHANGED <<pc, req, srv, objVal, facRes, ret, objectCache, writer, readers,
                   factoryCalls, resolved, calls>>
    /\ UNCHANGED <<killVars, find, conn, entity, described, storVars>>

BoolResult(res) == [val |-> res.val, tag |-> NoTag, panic |-> res.panic]

apiHandlerAuthMachineAgent(r) ==
    AuthQuery(r, "AuthMachineAgent", NoTag, BoolResult(AuthMachineAgent(entity[r])))

apiHandlerAuthUnitAgent(r) ==
    AuthQuery(r, "AuthUnitAgent", NoTag, BoolResult(AuthUnitAgent(entity[r])))

apiHandlerAuthClient(r) ==
    AuthQuery(r, "AuthClient", NoTag, BoolResult(AuthClient(entity[r])))

apiHandlerAuthOwner(r) ==
    \E tag \in Tags :
        AuthQuery(r, "AuthOwner", tag, BoolResult(AuthOwner(entity[r], tag)))

apiHandlerGetAuthTag(r) ==
    AuthQuery(r, "GetAuthTag", NoTag,
              [val |-> FALSE, tag |-> GetAuthTag(entity[r]).tag,
               panic |-> GetAuthTag(entity[r]).panic])

\* A call of DescribeFacades, which takes no session.
DescribeFacadesCall ==
    /\ ~panicked
    /\ described' = [done |-> TRUE, result |-> DescribeFacades]
    /\ UNCHANGED <<callVars, killVars, find, conn, entity, auth, storVars>>

\* Kill has returned on one of the roots of the session.
Killed == \E k \in Killers : kpc[k] \in {"handlerDone", "rootDone"}

\* An Abort that hands out a channel which Kill closes.
Abort_ClosedByKill(ctx) ==
    IF Killed THEN [state |-> "closed"] ELSE [state |-> "open"]

\* facadeContext.Abort: return nil, whatever has happened on the session.
Abort(ctx) == NilChan

\* The facade contexts the roots have made: one for each factory invocation.
CreatedContexts ==
    {facadeContext(p[1], p[2][3]) :
        p \in {q \in Conns \X Keys : factoryCalls[q[1]][q[2]] > 0}}

\* The caller and the killer of the one connection SpecSession follows.
SessionCallers == {c \in Callers : \A d \in Callers : c <= d}
SessionKillers == {k \in Killers : \A j \in Killers : k <= j}

\* -------------------------------------------------------------- storage calls

PoolFilters == [Names : SUBSET FilterNames, Providers : SUBSET FilterProviders]

\* A call of API.ListPools; poolManager.List() succeeds or fails.
APIListPools ==
    \E filter \in PoolFilters, listErr \in {NoError, PoolManagerError} :
        /\ apiReq' = [NoApiReq EXCEPT !.method = "ListPools", !.filter = filter,
                                      !.listErr = listErr]
        /\ apiRes' = [done |-> TRUE,
                      Results |-> ListPools(pools, listErr, filter).Results,
                      err |-> ListPools(pools, listErr, filter).err]
        /\ UNCHANGED <<callVars, killVars, find, sessVars, pools, store>>

\* A call of API.Show.
APIShow ==
    \E entities \in SeqsUpTo(EntityTags, MaxEntities) :
        /\ apiReq' = [NoApiReq EXCEPT !.method = "Show", !.entities = entities]
        /\ apiRes' = [done |-> TRUE,
                      Results |-> Show(store, entities).Results,
                      err |-> Show(store, entities).err]
        /\ UNCHANGED <<callVars, killVars, find, sessVars, pools, store>>

\* ------------------------------------------------------------ specification

Next ==
    \/ \E c \in Callers : FindMethod(c)
    \/ \E c \in Callers : Call(c)
    \/ \E c \in Callers : CreatorRead(c)
    \/ \E c \in Callers : CreatorLock(c)
    \/ \E c \in Callers : CreatorRecheck(c)
    \/ \E c \in Callers : FactoryInvoke(c)
    \/ \E c \in Callers : FactoryReturn(c)
    \/ \E c \in Callers : CreatorFinish(c)
    \/ \E c \in Callers : MethodCall(c)

Spec == Init /\ [][Next]_vars

NextKill ==
    \/ \E k \in Killers : apiHandlerKill(k)
    \/ \E k \in Killers : apiRootKill(k)
    \/ FacadeRegister

SpecKill == Init /\ [][NextKill]_vars

\* Every step of a Call that can be taken is taken in the end: the goroutine
\* serving it is scheduled, sync.RWMutex hands a free lock to a waiter, and
\* the constructor returns.  Nothing obliges the transport to make requests.
CallFairness ==
    \A c \in Callers :
        /\ WF_vars(Call(c))
        /\ WF_vars(CreatorRead(c))
        /\ WF_vars(CreatorLock(c))
        /\ WF_vars(CreatorRecheck(c))
        /\ WF_vars(FactoryInvoke(c))
        /\ WF_vars(FactoryReturn(c))
        /\ WF_vars(CreatorFinish(c))
        /\ WF_vars(MethodCall(c))

SpecLive == Init /\ [][Next]_vars /\ CallFairness

NextFind == FindOnAnonRoot \/ FindOnApiRoot

SpecFind == Init /\ [][NextFind]_vars

\* Callers on several connections, each connection with its own apiRoot.
NextConns ==
    \/ \E c \in Callers : FindConnMethod(c)
    \/ \E c \in Callers : Call(c)
    \/ \E c \in Callers : CreatorRead(c)
    \/ \E c \in Callers : CreatorLock(c)
    \/ \E c \in Callers : CreatorRecheck(c)
    \/ \E c \in Callers : FactoryInvoke(c)
    \/ \E c \in Callers : FactoryReturn(c)
    \/ \E c \in Callers : CreatorFinish(c)
    \/ \E c \in Callers : MethodCall(c)

SpecConns == InitConns /\ [][NextConns]_vars

\* The authorization queries and DescribeFacades, before and after login.
NextAuth ==
    \/ \E r \in Sessions : Login(r)
    \/ \E r \in Sessions : apiHandlerAuthMachineAgent(r)
    \/ \E r \in Sessions : apiHandlerAuthUnitAgent(r)
    \/ \E r \in Sessions : apiHandlerAuthClient(r)
    \/ \E r \in Sessions : apiHandlerAuthOwner(r)
    \/ \E r \in Sessions : apiHandlerGetAuthTag(r)
    \/ DescribeFacadesCall

SpecAuth == InitSession /\ [][NextAuth]_vars

\* Calls for the Storage facade on a connection logged in as any entity.
NextStorage ==
    \/ \E c \in Callers : FindStorageMethod(c)
    \/ \E c \in Callers : Call(c)
    \/ \E c \in Callers : CreatorRead(c)
    \/ \E c \in Callers : CreatorLock(c)
    \/ \E c \in Callers : CreatorRecheck(c)
    \/ \E c \in Callers : FactoryInvoke(c)
    \/ \E c \in Callers : FactoryReturn(c)
    \/ \E c \in Callers : CreatorFinish(c)
    \/ \E c \in Callers : MethodCall(c)

SpecStorage == InitStorage /\ [][NextStorage]_vars

\* The life of one connection: requests on its anonRoot, login, calls on its
\* apiRoot, authorization queries, and Kill on either root.
NextSession ==
    \/ \E r \in Sessions : AnonFindMethod(r)
    \/ \E r \in Sessions : Login(r)
    \/ \E c \in SessionCallers : FindStorageMethod(c)
    \/ \E c \in SessionCallers : Call(c)
    \/ \E c \in SessionCallers : CreatorRead(c)
    \/ \E c \in SessionCallers : CreatorLock(c)
    \/ \E c \in SessionCallers : CreatorRecheck(c)
    \/ \E c \in SessionCallers : FactoryInvoke(c)
    \/ \E c \in SessionCallers : FactoryReturn(c)
    \/ \E c \in SessionCallers : CreatorFinish(c)
    \/ \E c \in SessionCallers : MethodCall(c)
    \/ \E r \in Sessions : apiHandlerAuthClient(r)
    \/ \E r \in Sessions : apiHandlerAuthOwner(r)
    \/ \E k \in SessionKillers : apiHandlerKill(k)
    \/ \E k \in SessionKillers : apiRootKill(k)

SpecSession == InitSession /\ [][NextSession]_vars

\* Calls of ListPools on a storage API with any pools behind it.
NextPools == APIListPools

SpecPools == InitPools /\ [][NextPools]_vars

\* Calls of Show on a storage API with any backing store behind it.
NextShow == APIShow

SpecShow == InitShow /\ [][NextShow]_vars

\* ------------------------------------------------------------------- claims

\* The values creators have returned for object key k on connection r.
ResolvedFor(r, k) == {p[2] : p \in {q \in resolved : q[1] = k /\ q[3] = r}}

\* The constructor of (name, version) always returns a valid object of the
\* declared type.
AlwaysValid(r, name, version) ==
    \A id \in ObjIds, n \in 1..MaxCalls :
        \A res \in FactoryResults(facadeContext(r, id), name, version, n) :
            /\ res.err = NoError
            /\ IsValid(res.obj)
            /\ AssignableTo(res.obj.type, DeclaredType(name, version))

\* C1: on one apiRoot, an object key that has a value in objectCache keeps
\* that value through every step of every caller, and every value a creator
\* has returned for a key is the value the cache holds for that key: all
\* calls resolving the key obtain the same instance.
C1_OneInstancePerKey ==
    [][/\ \A r \in Conns : \A k \in DOMAIN objectCache[r] :
            k \in DOMAIN objectCache'[r] /\ objectCache'[r][k] = objectCache[r][k]
       /\ \A p \in resolved' :
            p[1] \in DOMAIN objectCache'[p[3]] /\ objectCache'[p[3]][p[1]] = p[2]]_vars

C1_Witness ==
    \E c, d \in Callers :
        /\ c # d
        /\ conn[c] = conn[d]
        /\ pc[c] = "invoke" /\ pc[d] = "invoke"
        /\ KeyOf(c) = KeyOf(d)
        /\ IsValid(objVal[c])
        /\ objVal[c] = objVal[d]

\* C2: for a key whose registered constructor always returns a valid object,
\* the factory is invoked at most once whatever the interleaving, exactly once
\* as soon as some caller has resolved the key, and every caller holding a
\* value for the key holds that single instance.
C2_OneFactoryInvocation ==
    \A r \in Conns, k \in Keys :
        \/ <<k[1], k[2]>> \notin Registered
        \/ /\ factoryCalls[r][k] <= 1
           /\ Cardinality(ResolvedFor(r, k)) <= 1
           /\ ResolvedFor(r, k) # {} => factoryCalls[r][k] = 1
           /\ \A c \in Callers :
               (pc[c] = "invoke" /\ conn[c] = r /\ KeyOf(c) = k) =>
                   ResolvedFor(r, k) = {objVal[c]}
        \/ ~AlwaysValid(r, k[1], k[2])

\* One caller has built the instance while another, having missed the cache
\* under the read lock, holds the write lock and is about to re-check.
C2_Witness ==
    \E c, d \in Callers :
        /\ c # d
        /\ conn[c] = conn[d]
        /\ KeyOf(c) = KeyOf(d)
        /\ AlwaysValid(conn[c], srv[c].rootName, srv[c].version)
        /\ pc[c] = "invoke"
        /\ pc[d] = "locked"
        /\ factoryCalls[conn[c]][KeyOf(c)] = 1

\* The request has no entry in the registry, or its declared type lacks the method.
NotInRegistry(rootName, version, methodName) ==
    \/ <<rootName, version>> \notin Registered
    \/ methodName \notin TypeMethods(DeclaredType(rootName, version))

\* C3: apiRoot.FindMethod answers every request whose name, version or
\* method the registry does not have with a "call not implemented" error
\* carrying rootName and version, and methodName when only the method is
\* missing, and with no MethodCaller.
C3_NotImplemented ==
    (find.root = "api" /\ NotInRegistry(find.rootName, find.version, find.methodName)) =>
        /\ find.caller = NoCaller
        /\ find.err.kind = "CallNotImplemented"
        /\ find.err.RootMethod = find.rootName
        /\ find.err.Version = find.version
        /\ find.err.Method =
              IF <<find.rootName, find.version>> \in Registered
              THEN find.methodName ELSE ""

C3_Witness ==
    /\ find.root = "api"
    /\ <<find.rootName, find.version>> \in Registered
    /\ find.methodName \notin TypeMethods(DeclaredType(find.rootName, find.version))
    /\ find.err = CallNotImplementedError(find.rootName, find.version, find.methodName)

\* C4: on the anonymous root every rootName other than "Admin" fails with
\* "call not implemented" carrying rootName and version, for every version
\* and method, registered facades and supported admin versions included.
C4_AnonOnlyAdmin ==
    (find.root = "anon" /\ find.rootName # "Admin") =>
        /\ find.caller = NoCaller
        /\ find.err = CallNotImplementedError(find.rootName, find.version, "")

C4_Witness ==
    /\ find.root = "anon"
    /\ find.rootName = "Logger"
    /\ find.methodName = "Log"
    /\ find.version \in DOMAIN adminAPIs
    /\ <<find.rootName, find.version>> \in Registered
    /\ find.err.kind = "CallNotImplemented"

\* C5: on the anonymous root, "Admin" at a version with no admin
\* implementation fails with the not-supported request error, which is not
\* a "call not implemented" error, for every method.
C5_UnsupportedVersion ==
    (find.root = "anon" /\ find.rootName = "Admin"
        /\ find.version \notin DOMAIN adminAPIs) =>
        /\ find.caller = NoCaller
        /\ find.err.kind = "RequestError"
        /\ find.err.Code = CodeNotSupported
        /\ find.err.kind # "CallNotImplemented"

C5_Witness ==
    /\ find.root = "anon"
    /\ find.rootName = "Admin"
    /\ find.version \notin DOMAIN adminAPIs
    /\ find.methodName = "Login"
    /\ find.err = RequestError(CodeNotSupported)

\* C6: on the anonymous root, "Admin" at a version v that has an admin
\* implementation resolves the method against that implementation: a caller
\* bound to it when it has the method, its not-found error otherwise.
C6_AdminDelegates ==
    (find.root = "anon" /\ find.rootName = "Admin"
        /\ find.version \in DOMAIN adminAPIs) =>
        IF find.methodName \in AdminMethods(adminAPIs[find.version])
        THEN /\ find.err = NoError
             /\ find.caller.kind = "methodCaller"
             /\ find.caller.impl = adminAPIs[find.version]
             /\ find.caller.objMethod = find.methodName
        ELSE /\ find.caller = NoCaller
             /\ find.err.kind = "CallNotImplemented"
             /\ find.err.RootMethod = "Admin"
             /\ find.err.Method = find.methodName

\* A method only the other version's implementation has is not found.
C6_Witness ==
    /\ find.root = "anon"
    /\ find.rootName = "Admin"
    /\ find.version \in DOMAIN adminAPIs
    /\ find.methodName \notin AdminMethods(adminAPIs[find.version])
    /\ \E v \in DOMAIN adminAPIs : find.methodName \in AdminMethods(adminAPIs[v])
    /\ find.err.kind = "CallNotImplemented"

KillDone(k) == kpc[k] \in {"handlerDone", "rootDone"}

InTable(r) == \E i \in 1..Len(resources) : resources[i] = r

C8_ConstructorErrorVerbatim ==
    [][\A c \in Callers :
          (pc[c] = "built" /\ facRes[c].err # NoError /\ pc'[c] # "built") =>
              /\ pc'[c] = "idle"
              /\ ret'[c] = [val |-> NoValue, err |-> facRes[c].err, set |-> TRUE]
              /\ objectCache' = objectCache
              /\ KeyOf(c) \notin DOMAIN objectCache'[conn[c]]]_vars

\* A Call failed with the constructor's error and a later Call for the same
\* key invoked the constructor again and cached its object.
C8_Witness ==
    \E c \in Callers :
        /\ pc[c] = "idle"
        /\ ret[c].set
        /\ ret[c].err = ConstructorError(req[c].rootName, req[c].version, req[c].objId)
        /\ KeyOf(c) \in DOMAIN objectCache[conn[c]]
        /\ factoryCalls[conn[c]][KeyOf(c)] = 2
        /\ objectCache[conn[c]][KeyOf(c)].n = 2

\* C9: when the constructor returned a nil error and a value that is not of
\* the declared type (nil included), the creator's next step returns an
\* error from Call, does not panic and leaves objectCache as it was.
C9_MismatchIsError ==
    [][\A c \in Callers :
          (/\ pc[c] = "built"
           /\ facRes[c].err = NoError
           /\ \/ ~IsValid(facRes[c].obj)
              \/ ~AssignableTo(facRes[c].obj.type, srv[c].goType)
           /\ pc'[c] # "built") =>
              /\ ~panicked'
              /\ pc'[c] = "idle"
              /\ ret'[c].set /\ ret'[c].err # NoError /\ ret'[c].val = NoValue
              /\ objectCache' = objectCache]_vars

\* C10: every cached instance was built by the constructor of its key's
\* name and version for its key's objectId, so two versions of one facade
\* with the same objectId are two instances, and a Call runs against, and
\* returns from, the instance of the version and objectId it was resolved for.
C10_KeyHasVersionAndId ==
    /\ \A r \in Conns : \A k \in DOMAIN objectCache[r] :
          /\ objectCache[r][k].name = k[1]
          /\ objectCache[r][k].version = k[2]
          /\ objectCache[r][k].objId = k[3]
    /\ \A c \in Callers :
          (pc[c] = "invoke" \/ (pc[c] = "idle" /\ ret[c].set /\ ret[c].err = NoError)) =>
              /\ objVal[c].name = req[c].rootName
              /\ objVal[c].version = req[c].version
              /\ objVal[c].objId = req[c].objId
              /\ pc[c] = "idle" => ret[c].val = objVal[c]

C10_Witness ==
    \E id \in ObjIds, c \in Callers :
        /\ objectKey("Logger", 1, id) \in DOMAIN objectCache[conn[c]]
        /\ objectKey("Logger", 2, id) \in DOMAIN objectCache[conn[c]]
        /\ objectCache[conn[c]][objectKey("Logger", 1, id)] #
              objectCache[conn[c]][objectKey("Logger", 2, id)]
        /\ pc[c] = "idle" /\ ret[c].set
        /\ ret[c].val = objectCache[conn[c]][objectKey("Logger", 2, id)]

\* The tag kind each of the three kind queries asks about.
AuthKind(query) ==
    IF query = "AuthMachineAgent" THEN "machine"
    ELSE IF query = "AuthUnitAgent" THEN "unit"
    ELSE "user"

\* C11: AuthMachineAgent, AuthUnitAgent and AuthClient return true exactly
\* when the session's entity has a tag of the kind they ask about, and on a
\* session nobody has logged in on they return false and do not panic.
C11_AuthKindQueries ==
    auth.query \in {"AuthMachineAgent", "AuthUnitAgent", "AuthClient"} =>
        /\ ~auth.panic
        /\ auth.val = (/\ entity[auth.r] # NoEntity
                       /\ entity[auth.r].tag.kind = AuthKind(auth.query))

\* Kill has just finished on the apiRoot: StopAll returns.
RootKillReturns == \E k \in Killers : kpc[k] = "rootStop" /\ kpc'[k] = "rootDone"

\* C12 as stated: when Kill returns on the apiRoot, every resource has been
\* stopped and the object cache of the connection holds no entries.
C12_KillDropsCache ==
    [][RootKillReturns =>
          /\ resources' = <<>>
          /\ \A i \in 1..Len(resources) : stopCount'[resources[i]] >= 1
          /\ objectCache'[TheSession] = <<>>]_vars

\* C12, amended: no step of Kill on either root changes the object cache, and
\* when Kill returns on the apiRoot every resource has been stopped and the
\* table is empty; the instances built before Kill stay in the cache, where a
\* later Call on their key finds them.
C12_KillKeepsCache ==
    [][/\ kpc' # kpc => objectCache' = objectCache
       /\ RootKillReturns =>
             /\ resources' = <<>>
             /\ \A i \in 1..Len(resources) : stopCount'[resources[i]] >= 1]_vars

\* Kill has returned on the apiRoot, and a Call has found in the cache the one
\* instance ever built for its key.
C12_Witness ==
    \E k \in Killers, c \in Callers :
        /\ kpc[k] = "rootDone"
        /\ resources = <<>>
        /\ pc[c] = "invoke"
        /\ calls >= 2
        /\ KeyOf(c) \in DOMAIN objectCache[conn[c]]
        /\ objVal[c] = objectCache[conn[c]][KeyOf(c)]
        /\ factoryCalls[conn[c]][KeyOf(c)] = 1

\* C13: on a session with an authenticated entity, AuthOwner(tag) returns
\* true exactly when tag equals the entity's own tag, and so false for a tag
\* of the same kind with another identifier.
C13_AuthOwnerExact ==
    (auth.query = "AuthOwner" /\ entity[auth.r] # NoEntity) =>
        /\ ~auth.panic
        /\ auth.val = (auth.arg = entity[auth.r].tag)

C13_Witness ==
    /\ auth.query = "AuthOwner"
    /\ entity[auth.r] # NoEntity
    /\ auth.arg.kind = entity[auth.r].tag.kind
    /\ auth.arg.id # entity[auth.r].tag.id
    /\ ~auth.val

\* C14: a call of DescribeFacades returns one (Name, Versions) pair per entry
\* of the registry's List, in List's order and with List's versions, whether
\* or not anybody has logged in, and changes nothing else.
C14_DescribeFacades ==
    [][described' # described =>
          /\ described'.done
          /\ Len(described'.result) = Len(FacadesList)
          /\ \A i \in 1..Len(FacadesList) :
                /\ described'.result[i].Name = FacadesList[i].Name
                /\ described'.result[i].Versions = FacadesList[i].Versions
          /\ UNCHANGED <<callVars, killVars, find, conn, entity, auth, storVars>>]_vars

C14_Witness ==
    /\ described.done
    /\ entity[TheSession] = NoEntity
    /\ Len(described.result) = Len(FacadesList)
    /\ Len(described.result) > 1
    /\ described.result[1].Name # described.result[Len(described.result)].Name

\* No caller on connection r takes a step.
ConnIdle(r) == \A c \in Callers : conn[c] = r => pc'[c] = pc[c]

\* C15: the object cache is per connection.  Every instance a connection
\* caches or hands to a Call was built from a facade context of that
\* connection; a step on one connection leaves the cache, the lock and the
\* factory counts of every other connection as they were; a caller is held
\* up by the lock of its own connection only; and a key is constructed at
\* most once on each connection, so the same key resolved on two connections
\* is two instances.
C15_PerConnectionCache ==
    /\ [](/\ \A r \in Conns : \A k \in DOMAIN objectCache[r] :
                /\ objectCache[r][k].conn = r
                /\ factoryCalls[r][k] = 1
          /\ \A c \in Callers : pc[c] = "invoke" => objVal[c].conn = conn[c]
          /\ \A c \in Callers :
                /\ (pc[c] = "found" /\ writer[conn[c]] = 0) => ENABLED Call(c)
                /\ (pc[c] = "lock" /\ writer[conn[c]] = 0 /\ readers[conn[c]] = {}) =>
                      ENABLED CreatorLock(c))
    /\ [][\A r \in Conns :
            ConnIdle(r) =>
                /\ objectCache'[r] = objectCache[r]
                /\ writer'[r] = writer[r]
                /\ readers'[r] = readers[r]
                /\ factoryCalls'[r] = factoryCalls[r]]_vars

\* The same key is cached on two connections, built once on each, as two
\* instances.
C15_Witness ==
    \E r, q \in Conns, k \in Keys :
        /\ r # q
        /\ k \in DOMAIN objectCache[r] /\ k \in DOMAIN objectCache[q]
        /\ factoryCalls[r][k] = 1 /\ factoryCalls[q][k] = 1
        /\ objectCache[r][k] # objectCache[q][k]

\* C16: whatever calls and Kills have happened on the connection, a wait on
\* the Abort channel of any facade context the root has made has not been
\* released.
C16_AbortNeverFires ==
    \A ctx \in CreatedContexts : ~Released(Abort(ctx))

\* A facade has been built from a context, and Kill has returned since.
C16_Witness ==
    /\ Killed
    /\ resources = <<>>
    /\ \E c \in Callers :
          /\ facadeContext(conn[c], req[c].objId) \in CreatedContexts
          /\ KeyOf(c) \in DOMAIN objectCache[conn[c]]
          /\ pc[c] = "idle" /\ ret[c].set /\ ret[c].err = NoError

\* C17: the entity of a session is written only while the session has none:
\* once set it stays, and the step that sets it is no FindMethod, Call,
\* authorization query or Kill.
C17_EntityNeverChanges ==
    [][/\ \A r \in Conns : entity[r] # NoEntity => entity'[r] = entity[r]
       /\ entity' # entity => UNCHANGED <<callVars, killVars, auth>>]_vars

\* A logged-in session on which a Call has returned, an authorization query
\* has been answered and Kill has returned.
C17_Witness ==
    /\ entity[TheSession] # NoEntity
    /\ auth.query # "" /\ auth.r = TheSession
    /\ Killed
    /\ \E c \in Callers : conn[c] = TheSession /\ pc[c] = "idle" /\ ret[c].set

\* C18: FindMethod on the apiRoot invokes no factory and leaves objectCache
\* as it was; a factory is invoked only by the creator inside Call, holding
\* the write lock, for a key the cache does not have; and a creator that
\* finds its key in the cache returns the cached instance with no factory
\* invocation.
C18_LazyResolution ==
    [][/\ calls' # calls => (factoryCalls' = factoryCalls /\ objectCache' = objectCache)
       /\ factoryCalls' # factoryCalls =>
             \E c \in Callers :
                 /\ pc[c] = "factory" /\ pc'[c] = "constructing"
                 /\ writer[conn[c]] = c
                 /\ KeyOf(c) \notin DOMAIN objectCache[conn[c]]
                 /\ factoryCalls' = [factoryCalls EXCEPT ![conn[c]][KeyOf(c)] = @ + 1]
       /\ \A c \in Callers :
             (/\ pc[c] \in {"rlocked", "locked"}
              /\ pc'[c] # pc[c]
              /\ KeyOf(c) \in DOMAIN objectCache[conn[c]]) =>
                 /\ pc'[c] = "invoke"
                 /\ objVal'[c] = objectCache[conn[c]][KeyOf(c)]
                 /\ factoryCalls' = factoryCalls
                 /\ objectCache' = objectCache]_vars

\* A Call has found its key in the cache: it holds the cached instance and
\* no factory has run for it, the one invocation for the key being another
\* call's.
C18_Witness ==
    \E c \in Callers :
        /\ pc[c] = "invoke"
        /\ facRes[c] = NoFacRes
        /\ objVal[c] = objectCache[conn[c]][KeyOf(c)]
        /\ factoryCalls[conn[c]][KeyOf(c)] = 1

\* Caller c is inside the factory call of its creator.
Constructing(c) == pc[c] = "constructing"

\* C19: a constructor runs with the exclusive lock of its connection held by
\* its caller, so at most one runs per connection; while it runs no other
\* caller of that connection can take the lock, shared or exclusive, and a
\* caller that has missed the cache stays where it is; a caller of another
\* connection takes the lock of its own connection as soon as that one is
\* free.
C19_ConstructionUnderLock ==
    /\ [](\A c \in Callers :
            /\ Constructing(c) =>
                  /\ writer[conn[c]] = c
                  /\ readers[conn[c]] = {}
                  /\ \A d \in Callers \ {c} :
                        conn[d] = conn[c] =>
                            /\ ~Constructing(d)
                            /\ pc[d] \in {"idle", "found", "lock", "invoke"}
                            /\ ~ENABLED Call(d)
                            /\ ~ENABLED CreatorLock(d)
            /\ (pc[c] = "lock" /\ writer[conn[c]] = 0 /\ readers[conn[c]] = {}) =>
                  ENABLED CreatorLock(c)
            /\ (pc[c] = "found" /\ writer[conn[c]] = 0) => ENABLED Call(c))
    /\ [][\A c, d \in Callers :
            (/\ c # d /\ conn[c] = conn[d]
             /\ Constructing(c) /\ pc'[c] = pc[c]
             /\ pc[d] \in {"found", "lock"}) => pc'[d] = pc[d]]_vars

\* A constructor is running while another caller of the same connection, who
\* missed the cache, waits for the lock.
C19_Witness ==
    \E c, d \in Callers :
        /\ c # d
        /\ conn[c] = conn[d]
        /\ Constructing(c)
        /\ pc[d] = "lock"
        /\ ~ENABLED CreatorLock(d)

\* Caller c has had an answer from srvCaller.Call for a Storage request.
StorageCallReturned(c) ==
    /\ req[c].rootName = "Storage"
    /\ srv[c] # NoCaller
    /\ pc[c] = "idle"
    /\ ret[c].set

\* C20: on a session whose entity is not a client user, every Call for the
\* Storage facade returns common.ErrPerm and no value, however many have been
\* made before it, no creator gets hold of a Storage instance, and the cache
\* holds no Storage entry.
C20_StorageNeedsClient ==
    \A r \in Conns :
        ~AuthClient(entity[r]).val =>
            /\ \A k \in DOMAIN objectCache[r] : k[1] # "Storage"
            /\ \A c \in Callers :
                  conn[c] = r =>
                      /\ (req[c].rootName = "Storage" => pc[c] # "invoke")
                      /\ (StorageCallReturned(c) =>
                              (ret[c].err = ErrPerm /\ ret[c].val = NoValue))

\* A second factory invocation for the same key has failed like the first.
C20_Witness ==
    \E c \in Callers :
        /\ ~AuthClient(entity[conn[c]]).val
        /\ StorageCallReturned(c)
        /\ ret[c].err = ErrPerm
        /\ factoryCalls[conn[c]][KeyOf(c)] = 2
        /\ objectCache[conn[c]] = <<>>

\* The pools of all that match either the names or the provider types of the
\* filter, every pool when the filter names nothing.
MatchingEither(all, filter) ==
    LET Matches(apool) ==
            \/ filter.Names = {} /\ filter.Providers = {}
            \/ apool.Name \in filter.Names
            \/ apool.Provider \in filter.Providers
    IN  SelectSeq(all, Matches)

\* C21: a ListPools that succeeds returns, in the pool manager's order, every
\* pool when the filter is empty, the pools matching the names or the
\* provider types when only one of the two is given, and the pools matching
\* either the names or the provider types when both are given.
C21_ListPoolsFilter ==
    (apiReq.method = "ListPools" /\ apiRes.err = NoError) =>
        apiRes.Results = MatchingEither(pools, apiReq.filter)

\* The error Show owes an entity whose storage cannot be retrieved: the tag
\* does not parse, or the instance or its persistence cannot be read; nil for
\* an entity that is found or not found.
FailureOf(st, entityTag) ==
    IF ParseStorageTag(entityTag).err # NoParamsError
    THEN ServerError(ParseStorageTag(entityTag).err)
    ELSE getStorageInstance(st, ParseStorageTag(entityTag).tag).err

\* C22: Show never fails as a whole, and for every requested entity whose
\* storage cannot be retrieved its results hold one carrying that entity's
\* error and no storage information.
C22_ShowReportsEachFailure ==
    apiReq.method = "Show" =>
        /\ apiRes.err = NoError
        /\ \A i \in 1..Len(apiReq.entities) :
              FailureOf(store, apiReq.entities[i]) # NoParamsError =>
                  \E j \in 1..Len(apiRes.Results) :
                      /\ apiRes.Results[j].Error = FailureOf(store, apiReq.entities[i])
                      /\ apiRes.Results[j].Result = NoDetails

\* Caller c holds objectMutex of its root, shared or exclusive.
HoldsLock(c) == writer[conn[c]] = c \/ c \in readers[conn[c]]

\* C23: every srvCaller.Call that has begun comes to its end and returns,
\* whatever path its creator takes and whatever the other callers of the
\* root do, and a caller that is not inside a Call holds objectMutex neither
\* shared nor exclusive; the read lock is given up before the write lock is
\* asked for.
C23_CallTerminates ==
    /\ \A c \in Callers : (pc[c] = "found") ~> (pc[c] = "idle")
    /\ [](\A c \in Callers :
            /\ pc[c] \in {"idle", "found", "lock", "invoke"} => ~HoldsLock(c)
            /\ pc[c] = "lock" => c \notin readers[conn[c]])

\* C23, as far as it goes: every Call that has begun returns unless the
\* program panics in a creator, and the lock is held by nobody outside a
\* creator, a panicking one included.
C23_TerminatesUnlessPanic ==
    /\ \A c \in Callers : (pc[c] = "found") ~> (pc[c] = "idle" \/ panicked)
    /\ [](\A c \in Callers :
            /\ pc[c] \in {"idle", "found", "lock", "invoke", "panic"} => ~HoldsLock(c)
            /\ pc[c] = "lock" => c \notin readers[conn[c]])

\* C24: every entry of a root's objectCache has a key whose name and version
\* are registered and a value that one of the invocations of that key's
\* constructor on that root returned with a nil error and that is assignable
\* to the type the registry declares; and the cache changes only by the
\* insert of a creator that holds the exclusive lock of its root, alone.
C24_CacheHoldsValidInstances ==
    /\ [](\A r \in Conns : \A k \in DOMAIN objectCache[r] :
            /\ <<k[1], k[2]>> \in Registered
            /\ IsValid(objectCache[r][k])
            /\ AssignableTo(objectCache[r][k].type, DeclaredType(k[1], k[2]))
            /\ \E n \in 1..factoryCalls[r][k] :
                  [obj |-> objectCache[r][k], err |-> NoError] \in
                      FactoryResults(facadeContext(r, k[3]), k[1], k[2], n))
    /\ [][objectCache' # objectCache =>
            \E c \in Callers :
                /\ writer[conn[c]] = c
                /\ readers[conn[c]] = {}
                /\ pc[c] = "built"
                /\ facRes[c].err = NoError
                /\ objectCache' =
                      [objectCache EXCEPT
                          ![conn[c]] = CachePut(@, KeyOf(c), facRes[c].obj)]]_vars

\* A key is cached with an instance of its declared type after a Call on the
\* same key was refused an object of another type.
C24_Witness ==
    \E c \in Callers :
        /\ pc[c] = "idle" /\ ret[c].set
        /\ ret[c].err = InternalError(req[c].rootName, req[c].version, srv[c].goType)
        /\ KeyOf(c) \in DOMAIN objectCache[conn[c]]
        /\ factoryCalls[conn[c]][KeyOf(c)] >= 2

====
